---------------------------- MODULE Spec2Model ----------------------------
(***************************************************************************)
(* Model of markdown/diamond-sizes.py: a linear script that                *)
(*   1. enables Altair's 'json' data transformer            (line 4)       *)
(*   2. loads a CSV from a fixed URL with pandas.read_csv   (line 7)       *)
(*   3. keeps the rows with carat <= 2.5 (DataFrame.query)  (line 9)       *)
(*   4. builds a line chart of count() over carat           (lines 11-13)  *)
(*   5. saves it to markdown/diamonds_25.png                (line 15)      *)
(* Carat values are floats; they are modelled in hundredths of a carat,    *)
(* with NaN as a separate value that compares false with everything.       *)
(* A process run is followed by further runs (Rerun) over the same         *)
(* filesystem, so that re-running over an existing output is covered.      *)
(***************************************************************************)
EXTENDS Integers, Sequences, FiniteSets, TLC

VARIABLES
    pc,         \* position of the running script
    run,        \* number of the current process run (1-based)
    transformer,\* alt.data_transformers.active
    diamonds,   \* the loaded DataFrame (line 7)
    smaller,    \* the filtered DataFrame (line 9)
    chart,      \* the chart object (lines 11-13)
    fs,         \* the filesystem under the working directory
    fs0,        \* the filesystem as it was when the current run started
    steps,      \* the steps of the current run that completed, in order
    error,      \* the uncaught exception that ended the run, "" if none
    exit,       \* "running", "0" or "1"
    gets,       \* HTTP GETs issued by the current run
    writes,     \* paths written by the current run, in order
    saveInlines \* whether the installed Altair's save() overrides the
                \* active data transformer with 'default' (Altair >= 5)
                \* or leaves it active (Altair <= 4)

vars == <<pc, run, transformer, diamonds, smaller, chart, fs, fs0, steps,
          error, exit, gets, writes, saveInlines>>

---------------------------------------------------------------------------
(* Bounds of the model *)
MaxRows == 2
MaxRuns == 2

---------------------------------------------------------------------------
(* Floats, in hundredths *)
F(n) == [nan |-> FALSE, v |-> n]
NaN == [nan |-> TRUE, v |-> 0]

\* IEEE comparison a <= b: false when either side is NaN
FloatLe(a, b) == ~a.nan /\ ~b.nan /\ a.v <= b.v

\* the literal 2.5 of the query expression, in hundredths
Threshold == 250

\* carat values a downloaded row may hold: below, at and just above the
\* threshold, and a missing value
CaratValues == {F(100), F(250), F(251), NaN}

---------------------------------------------------------------------------
(* DataFrames: a set of columns and rows carrying their index label *)
None == [bound |-> FALSE, columns |-> {}, rows |-> <<>>]
DataFrame(cols, rs) == [bound |-> TRUE, columns |-> cols, rows |-> rs]

SeqsUpTo(S, n) == UNION {[1..k -> S] : k \in 0..n}

\* read_csv gives the rows a RangeIndex 0..n-1
FromCarats(cs) == DataFrame({"carat"},
                     [i \in 1..Len(cs) |-> [idx |-> i - 1, carat |-> cs[i]]])

\* a well-formed CSV that lacks the carat column
NoCaratFrame == DataFrame({"price"}, <<>>)

\* the tables the URL may serve
Tables == {FromCarats(cs) : cs \in SeqsUpTo(CaratValues, MaxRows)}
              \cup {NoCaratFrame}

CaratsOf(df) == [i \in 1..Len(df.rows) |-> df.rows[i].carat]

---------------------------------------------------------------------------
(* Line 9: diamonds.query('carat <= 2.5') *)

\* faulty variants of the expression: the comparison reversed, or strict
PredicateGe(c) == ~c.nan /\ c.v >= Threshold
PredicateLt(c) == ~c.nan /\ c.v < Threshold
\* the query expression, evaluated on one row's carat
Predicate(c) == FloatLe(c, F(Threshold))

KeepRow(r) == Predicate(r.carat)

\* df.loc[mask]: the rows whose mask entry is true, labels and order kept
Loc(df) == DataFrame(df.columns, SelectSeq(df.rows, KeepRow))

\* faulty variant: the scan of the rows starts one row late
queryDropFirst(df) ==
    [raised |-> "carat" \notin df.columns,
     self |-> df,
     ret |-> IF "carat" \in df.columns /\ Len(df.rows) > 0
             THEN DataFrame(df.columns, SelectSeq(Tail(df.rows), KeepRow))
             ELSE IF "carat" \in df.columns THEN Loc(df) ELSE None]
\* faulty variant: rows above the threshold are clipped to it, not dropped
queryClip(df) ==
    [raised |-> "carat" \notin df.columns,
     self |-> df,
     ret |-> IF "carat" \in df.columns
             THEN DataFrame(df.columns,
                    [i \in 1..Len(df.rows) |->
                       IF KeepRow(df.rows[i]) THEN df.rows[i]
                       ELSE [df.rows[i] EXCEPT !.carat = F(Threshold)]])
             ELSE None]
\* faulty variant: the receiver is filtered too (inplace=True)
queryInplace(df) ==
    [raised |-> "carat" \notin df.columns,
     self |-> IF "carat" \in df.columns THEN Loc(df) ELSE df,
     ret |-> IF "carat" \in df.columns THEN Loc(df) ELSE None]
\* DataFrame.query(expr) with the default inplace=False: raises when the
\* expression names a column the frame lacks, else returns a new frame and
\* leaves the receiver as it was
query(df) ==
    [raised |-> "carat" \notin df.columns,
     self |-> df,
     ret |-> IF "carat" \in df.columns THEN Loc(df) ELSE None]

---------------------------------------------------------------------------
(* Lines 11-13: the chart and what Vega-Lite draws for it *)
NoChart == [bound |-> FALSE, data |-> None, mark |-> "", x |-> "", y |-> ""]
Chart(df) == [bound |-> TRUE, data |-> df, mark |-> "line",
              x |-> "carat", y |-> "count()"]

\* one pass over the rows, adding each row to the group of its x value
RECURSIVE GroupCount(_, _, _)
GroupCount(rows, i, acc) ==
    IF i > Len(rows) THEN acc
    ELSE LET k == rows[i].carat
         IN  GroupCount(rows, i + 1,
                IF k \in DOMAIN acc
                THEN [acc EXCEPT ![k] = @ + 1]
                ELSE [x \in DOMAIN acc \cup {k} |->
                         IF x = k THEN 1 ELSE acc[x]])

EmptyGroups == [x \in {} |-> 0]

\* faulty variant: every row is its own group
AggregateNoGroup(rows) ==
    {[x |-> rows[i].carat, y |-> 1] : i \in 1..Len(rows)}
\* the aggregate transform of the encoding: group by carat, count rows
Aggregate(rows) ==
    LET g == GroupCount(rows, 1, EmptyGroups)
    IN  {[x |-> k, y |-> g[k]] : k \in DOMAIN g}

\* the line mark joins the points in increasing x
RECURSIVE LinePath(_)
LinePath(points) ==
    IF points = {} THEN <<>>
    ELSE LET lo == CHOOSE p \in points :
                     \A q \in points : p.x.v <= q.x.v
         IN  <<lo>> \o LinePath(points \ {lo})

Image(c) == [mark |-> c.mark, points |-> LinePath(Aggregate(c.data.rows))]

---------------------------------------------------------------------------
(* The filesystem: the output image and the data files of the transformer *)
\* faulty variant: the directory is lost from the path
PngPathCwd == "diamonds_25.png"
\* the path given to chart.save, relative to the working directory
PngPath == "markdown/diamonds_25.png"
\* altair-data-<hash of the content>.json in the working directory
JsonPath == "altair-data-<hash>.json"

NoFile == [exists |-> FALSE, data |-> <<>>]
EmptyFs == [png |-> NoFile, json |-> {}]

\* faulty variant: the file is opened in 'ab' mode
AppendBinary(file, bytes) == [exists |-> TRUE, data |-> file.data \o bytes]
\* open(fp, 'wb').write(bytes): creates or truncates, then writes
WriteBinary(file, bytes) == [exists |-> TRUE, data |-> bytes]

\* to_json of the 'json' transformer: the records, without the index
JsonOf(df) == CaratsOf(df)

---------------------------------------------------------------------------
(* The script *)
Terminal == {"done", "failed"}

Init ==
    /\ pc = "import"
    /\ run = 1
    /\ transformer = "default"
    /\ diamonds = None
    /\ smaller = None
    /\ chart = NoChart
    /\ fs = EmptyFs
    /\ fs0 = EmptyFs
    /\ steps = <<>>
    /\ error = ""
    /\ exit = "running"
    /\ gets = 0
    /\ writes = <<>>
    /\ saveInlines \in BOOLEAN

\* an uncaught exception: the interpreter prints it and exits with status 1
Raise(exc) ==
    /\ pc' = "failed"
    /\ error' = exc
    /\ exit' = "1"

\* line 4: alt.data_transformers.enable('json')
EnableTransformer ==
    /\ pc = "import"
    /\ pc' = "start"
    /\ transformer' = "json"
    /\ UNCHANGED <<run, diamonds, smaller, chart, fs, fs0, steps, error,
                   exit, gets, writes, saveInlines>>

\* line 7: pd.read_csv(url) returns the table the URL serves
FetchOk ==
    /\ pc = "start"
    /\ \E t \in Tables : diamonds' = t
    /\ gets' = gets + 1
    /\ steps' = Append(steps, "fetch")
    /\ pc' = "fetched"
    /\ UNCHANGED <<run, transformer, smaller, chart, fs, fs0, error, exit,
                   writes, saveInlines>>

\* faulty variant: the exception is caught and an empty table is used
FetchFailContinue ==
    /\ pc = "start"
    /\ gets' = gets + 1
    /\ diamonds' = DataFrame({"carat"}, <<>>)
    /\ error' = "URLError"
    /\ pc' = "fetched"
    /\ UNCHANGED <<run, transformer, smaller, chart, fs, fs0, steps, exit,
                   writes, saveInlines>>
\* line 7: pd.read_csv(url) raises (URLError when the network is
\* unavailable, ParserError when the body is no CSV); nothing catches it
FetchFail ==
    /\ pc = "start"
    /\ gets' = gets + 1
    /\ \E exc \in {"URLError", "ParserError"} : Raise(exc)
    /\ UNCHANGED <<run, transformer, diamonds, smaller, chart, fs, fs0,
                   steps, writes, saveInlines>>

\* line 9: smaller = diamonds.query('carat <= 2.5')
FilterOk ==
    /\ pc = "fetched"
    /\ ~query(diamonds).raised
    /\ diamonds' = query(diamonds).self
    /\ smaller' = query(diamonds).ret
    /\ steps' = Append(steps, "filter")
    /\ pc' = "filtered"
    /\ UNCHANGED <<run, transformer, chart, fs, fs0, error, exit, gets,
                   writes, saveInlines>>

\* line 9: the query raises, the assignment does not happen
FilterFail ==
    /\ pc = "fetched"
    /\ query(diamonds).raised
    /\ Raise("UndefinedVariableError")
    /\ UNCHANGED <<run, transformer, diamonds, smaller, chart, fs, fs0,
                   steps, gets, writes, saveInlines>>

\* lines 11-13: alt.Chart(smaller).encode(X('carat'), Y('count()')).mark_line()
BuildChart ==
    /\ pc = "filtered"
    /\ chart' = Chart(smaller)
    /\ steps' = Append(steps, "chart")
    /\ pc' = "charted"
    /\ UNCHANGED <<run, transformer, diamonds, smaller, fs, fs0, error,
                   exit, gets, writes, saveInlines>>

\* whether chart.to_dict() inside save() runs the 'json' transformer
WritesDataFile == transformer = "json" /\ ~saveInlines

\* the filesystem after the serialisation of the chart inside save()
Serialised(f) ==
    IF WritesDataFile
    THEN [f EXCEPT !.json = @ \cup {JsonOf(chart.data)}]
    ELSE f
SerialisedWrites == IF WritesDataFile THEN <<JsonPath>> ELSE <<>>

\* line 15: chart.save('markdown/diamonds_25.png') succeeds
ExportOk ==
    /\ pc = "charted"
    /\ fs' = [Serialised(fs) EXCEPT
                 !.png = WriteBinary(fs.png, <<Image(chart)>>)]
    /\ writes' = writes \o SerialisedWrites \o <<PngPath>>
    /\ steps' = Append(steps, "export")
    /\ pc' = "done"
    /\ exit' = "0"
    /\ UNCHANGED <<run, transformer, diamonds, smaller, chart, fs0, error,
                   gets, saveInlines>>

\* faulty variant: the exception of save is caught and the script ends
ExportFailSwallowed ==
    /\ pc = "charted"
    /\ pc' = "done"
    /\ exit' = "0"
    /\ UNCHANGED <<run, transformer, diamonds, smaller, chart, fs, fs0,
                   steps, error, gets, writes, saveInlines>>
\* line 15: chart.save raises, either while the data file is written, or
\* later while the image is rendered or the output file is opened; the
\* image file is opened only once its bytes exist
ExportFail ==
    /\ pc = "charted"
    /\ \/ /\ WritesDataFile
          /\ UNCHANGED <<fs, writes>>
          /\ Raise("OSError")
       \/ /\ fs' = Serialised(fs)
          /\ writes' = writes \o SerialisedWrites
          /\ \E exc \in {"RenderError", "OSError"} : Raise(exc)
    /\ UNCHANGED <<run, transformer, diamonds, smaller, chart, fs0, steps,
                   gets, saveInlines>>

\* the script is started again in the same working directory
Rerun ==
    /\ pc \in Terminal
    /\ run < MaxRuns
    /\ run' = run + 1
    /\ pc' = "import"
    /\ transformer' = "default"
    /\ diamonds' = None
    /\ smaller' = None
    /\ chart' = NoChart
    /\ fs0' = fs
    /\ steps' = <<>>
    /\ error' = ""
    /\ exit' = "running"
    /\ gets' = 0
    /\ writes' = <<>>
    /\ UNCHANGED <<fs, saveInlines>>

\* one statement of the running script
Step ==
    \/ EnableTransformer
    \/ FetchOk
    \/ FetchFail
    \/ FilterOk
    \/ FilterFail
    \/ BuildChart
    \/ ExportOk
    \/ ExportFail

Next == Step \/ Rerun

Spec == Init /\ [][Next]_vars

\* the interpreter runs the next statement of a started script
FairSpec == Spec /\ WF_vars(Step)

---------------------------------------------------------------------------
(* Properties *)

WithinThreshold(rows) ==
    \A i \in 1..Len(rows) : ~rows[i].carat.nan /\ rows[i].carat.v <= 250

\* C1: every row of the filtered table smaller has a carat value <= 2.5,
\* and so has every row of the chart's data and every point of the image
\* a run writes.
C1_FilteredWithinThreshold ==
    /\ WithinThreshold(smaller.rows)
    /\ WithinThreshold(chart.data.rows)
    /\ pc = "done" =>
         \A i \in 1..Len(fs.png.data) :
            \A j \in 1..Len(fs.png.data[i].points) :
               LET x == fs.png.data[i].points[j].x
               IN  ~x.nan /\ x.v <= 250

C1_Witness ==
    /\ pc = "done"
    /\ Len(smaller.rows) >= 1
    /\ \E i \in 1..Len(diamonds.rows) : diamonds.rows[i].carat = F(251)

\* the positions of the loaded table whose carat is a number <= 2.5
KeptPositions(df) ==
    {j \in 1..Len(df.rows) :
        ~df.rows[j].carat.nan /\ df.rows[j].carat.v <= 250}

\* the spec's example dataset [1.0, 2.0, 2.5, 3.0, 5.0]
ExampleFrame == FromCarats(<<F(100), F(200), F(250), F(300), F(500)>>)

\* C2: the filter returns exactly the rows of the loaded dataset whose
\* carat is <= 2.5 (2.5 included), each once per occurrence and in the
\* original relative order; on [1.0, 2.0, 2.5, 3.0, 5.0] it returns
\* [1.0, 2.0, 2.5].
C2_FilterExact ==
    /\ smaller.bound =>
         /\ Len(smaller.rows) = Cardinality(KeptPositions(diamonds))
         /\ \A j \in KeptPositions(diamonds) :
               \E i \in 1..Len(smaller.rows) :
                  smaller.rows[i] = diamonds.rows[j]
         /\ \A i \in 1..Len(smaller.rows) :
               /\ smaller.rows[i].idx + 1 \in KeptPositions(diamonds)
               /\ smaller.rows[i] = diamonds.rows[smaller.rows[i].idx + 1]
         /\ \A i \in 1..Len(smaller.rows) : \A k \in 1..Len(smaller.rows) :
               i < k => smaller.rows[i].idx < smaller.rows[k].idx
    /\ CaratsOf(query(ExampleFrame).ret) = <<F(100), F(200), F(250)>>

C2_Witness ==
    /\ pc = "filtered"
    /\ CaratsOf(diamonds) = <<F(251), F(250)>>
    /\ CaratsOf(smaller) = <<F(250)>>

\* C3: filtering the already-filtered table by the same predicate yields
\* the same table (same rows, same order).
C3_FilterIdempotent ==
    smaller.bound =>
        /\ ~query(smaller).raised
        /\ query(smaller).ret = smaller

C3_Witness ==
    /\ pc = "filtered"
    /\ CaratsOf(diamonds) = <<NaN, F(100)>>
    /\ smaller.rows = <<[idx |-> 1, carat |-> F(100)]>>

\* C4: every row of the filtered table is a row of the loaded dataset,
\* unaltered, and the filtered row count is <= the loaded row count.
C4_FilteredSubset ==
    smaller.bound =>
        /\ \A i \in 1..Len(smaller.rows) :
              \E j \in 1..Len(diamonds.rows) :
                 smaller.rows[i] = diamonds.rows[j]
        /\ Len(smaller.rows) <= Len(diamonds.rows)

C4_Witness ==
    /\ pc = "filtered"
    /\ Len(diamonds.rows) = 2
    /\ Len(smaller.rows) = 1
    /\ smaller.rows[1] = diamonds.rows[2]

\* C5: re-running the export over an existing markdown/diamonds_25.png
\* succeeds and replaces the file: after a successful run the file holds
\* exactly the image of that run, never earlier output followed by later
\* output, and the existing file does not keep the export from succeeding.
C5_ExportOverwrites ==
    /\ pc = "done" =>
         /\ fs.png.exists
         /\ fs.png.data = <<Image(chart)>>
    /\ (pc = "charted" /\ fs.png.exists) => ENABLED ExportOk

C5_Witness ==
    /\ run = 2
    /\ pc = "done"
    /\ fs0.png.exists
    /\ fs0.png.data # fs.png.data

\* C6: when data acquisition fails the script ends there with a fatal
\* error: the fetch is issued once and not retried, filter, chart
\* construction and export do not run, and the filesystem is as it was
\* when the run started.
C6_FetchFailureIsFatal ==
    /\ gets <= 1
    /\ error \in {"URLError", "ParserError"} =>
         /\ pc = "failed"
         /\ exit = "1"
         /\ gets = 1
         /\ steps = <<>>
         /\ ~diamonds.bound /\ ~smaller.bound /\ ~chart.bound
         /\ writes = <<>>
         /\ fs = fs0
         /\ ~ENABLED Step

C6_Witness ==
    /\ run = 2
    /\ pc = "failed"
    /\ error = "URLError"
    /\ fs.png.exists

Count(seq, x) == Cardinality({i \in 1..Len(seq) : seq[i] = x})

\* C7 as claimed: a successful run performs exactly one filesystem write,
\* the image file at markdown/diamonds_25.png, and no other file is
\* created or modified.
C7_OnlyImageWritten ==
    pc = "done" =>
        /\ writes = <<"markdown/diamonds_25.png">>
        /\ fs.json = fs0.json

\* C7 as amended: a successful run writes the image file
\* markdown/diamonds_25.png exactly once, as its last write; the only other
\* file any step can create or modify is one data file
\* altair-data-<hash>.json in the working directory, written at export by
\* the enabled 'json' data transformer when save() serialises the chart
\* with the active transformer, and holding the filtered rows.
C7_ImageAndDataFileWritten ==
    /\ pc # "done" /\ pc # "failed" => writes = <<>> /\ fs = fs0
    /\ pc = "failed" =>
         /\ fs.png = fs0.png
         /\ \/ writes = <<>> /\ fs = fs0
            \/ /\ writes = <<"altair-data-<hash>.json">>
               /\ transformer = "json"
               /\ fs.json = fs0.json \cup {CaratsOf(smaller)}
    /\ pc = "done" =>
         /\ Count(writes, "markdown/diamonds_25.png") = 1
         /\ writes[Len(writes)] = "markdown/diamonds_25.png"
         /\ \/ writes = <<"markdown/diamonds_25.png">> /\ fs.json = fs0.json
            \/ /\ writes = <<"altair-data-<hash>.json",
                             "markdown/diamonds_25.png">>
               /\ transformer = "json"
               /\ fs.json = fs0.json \cup {CaratsOf(smaller)}

C7_Witness ==
    /\ pc = "done"
    /\ writes = <<"altair-data-<hash>.json", "markdown/diamonds_25.png">>
    /\ fs.json # fs0.json

RECURSIVE SumY(_)
SumY(pts) == IF pts = <<>> THEN 0 ELSE Head(pts).y + SumY(Tail(pts))

\* C8: the image has exactly one point per distinct carat value of the
\* filtered table, its y is the number of filtered rows with that carat,
\* the counts sum to the filtered row count, and the points are joined in
\* increasing carat order.
C8_CountPerCarat ==
    pc = "done" =>
        LET pts == fs.png.data[1].points
            rows == smaller.rows
        IN  /\ fs.png.data[1].mark = "line"
            /\ \A i \in 1..Len(rows) :
                  Cardinality({j \in 1..Len(pts) :
                                  pts[j].x = rows[i].carat}) = 1
            /\ \A j \in 1..Len(pts) :
                  /\ \E i \in 1..Len(rows) : rows[i].carat = pts[j].x
                  /\ pts[j].y = Cardinality({i \in 1..Len(rows) :
                                                rows[i].carat = pts[j].x})
            /\ SumY(pts) = Len(rows)
            /\ \A j \in 1..Len(pts) : \A k \in 1..Len(pts) :
                  j < k => pts[j].x.v < pts[k].x.v

\* a run that drew two groups in carat order, after a run that drew one
\* group of two rows
C8_Witness ==
    /\ pc = "done"
    /\ CaratsOf(smaller) = <<F(250), F(100)>>
    /\ fs.png.data[1].points =
          <<[x |-> F(100), y |-> 1], [x |-> F(250), y |-> 1]>>
    /\ fs0.png.exists
    /\ fs0.png.data[1].points = <<[x |-> F(100), y |-> 2]>>

FourSteps == <<"fetch", "filter", "chart", "export">>
IsPrefix(s, t) == Len(s) <= Len(t) /\ \A i \in 1..Len(s) : s[i] = t[i]

ExitContract ==
    /\ IsPrefix(steps, FourSteps)
    /\ gets <= 1
    /\ (exit = "running") <=> (pc \notin Terminal)
    /\ (exit = "0") <=> (pc = "done")
    /\ (exit = "1") <=> (pc = "failed")
    /\ (pc = "failed") <=> (error # "")
    /\ (exit = "0") <=>
          /\ steps = FourSteps
          /\ Count(writes, "markdown/diamonds_25.png") = 1
          /\ fs.png.exists
    /\ pc = "failed" => Len(steps) < Len(FourSteps)

\* once a run has ended, the only thing that follows is a new run
OnlyRerunAfterExit == pc \in Terminal => (run' = run + 1 /\ pc' = "import")

\* C9: every run terminates; it exits 0 exactly when fetch, filter, chart
\* and export completed in that order and the image file was written; a
\* failing step ends the run there with an uncaught error and exit 1, and
\* nothing of that run happens afterwards (no recovery, no retry).
C9_TerminatesWithExitContract ==
    /\ []ExitContract
    /\ [][OnlyRerunAfterExit]_vars
    /\ (pc \notin Terminal) ~> (pc \in Terminal)

C9_Witness ==
    /\ pc = "failed"
    /\ error = "OSError"
    /\ steps = <<"fetch", "filter", "chart">>
    /\ exit = "1"

\* C10: the filter step leaves the loaded dataset diamonds as it was (rows
\* with carat > 2.5 included) and performs no file or network operation.
C10_FilterHasNoSideEffects ==
    [][pc = "fetched" =>
          /\ diamonds' = diamonds
          /\ fs' = fs
          /\ writes' = writes
          /\ gets' = gets]_vars

C10_Witness ==
    /\ pc = "filtered"
    /\ \E i \in 1..Len(diamonds.rows) : diamonds.rows[i].carat = F(251)
    /\ \A i \in 1..Len(smaller.rows) : smaller.rows[i].carat # F(251)
    /\ Len(smaller.rows) + 1 = Len(diamonds.rows)

===========================================================================
